---- MODULE Spec2Model ----
(***************************************************************************)
(* SEO-Analyzer (src/app.py, src/app2.py): the working dataset of one      *)
(* Streamlit session, the PostgreSQL intent store, the batched intent      *)
(* classifier, the manual-edit flush, and the metric cleaning and          *)
(* flagging of a loaded file.                                              *)
(*                                                                         *)
(* Text is modelled by TLA+ strings, handled character by character.       *)
(* A Python dict is a function whose DOMAIN is its key set; a DataFrame    *)
(* is a sequence of row records; NaN / None is the value NaN.              *)
(***************************************************************************)
EXTENDS Integers, Sequences, FiniteSets, TLC

VARIABLES file, loaded, df, store, clock, pc, keywords, idx, all_intents, editor,
          last, calls, metric, schema

vars == <<file, loaded, df, store, clock, pc, keywords, idx, all_intents, editor,
          last, calls, metric, schema>>

(***************************************************************************)
(* Python str methods used by the program.                                 *)
(***************************************************************************)
UpperChars == "ABCDEFGHIJKLMNOPQRSTUVWXYZ"
LowerChars == "abcdefghijklmnopqrstuvwxyz"

CharAt(s, i) == SubSeq(s, i, i)

RECURSIVE IndexIn(_, _, _)
\* position of character c in s at or after i, 0 when absent (str.find + 1)
IndexIn(s, c, i) ==
    IF i > Len(s) THEN 0
    ELSE IF CharAt(s, i) = c THEN i
    ELSE IndexIn(s, c, i + 1)

Contains(s, c) == IndexIn(s, c, 1) # 0

LowerChar(c) ==
    LET p == IndexIn(UpperChars, c, 1)
    IN  IF p = 0 THEN c ELSE CharAt(LowerChars, p)

UpperChar(c) ==
    LET p == IndexIn(LowerChars, c, 1)
    IN  IF p = 0 THEN c ELSE CharAt(UpperChars, p)

RECURSIVE Lower(_)
\* str.lower()
Lower(s) ==
    IF s = "" THEN "" ELSE LowerChar(CharAt(s, 1)) \o Lower(Tail(s))

\* str.capitalize(): first character upper-cased, the rest lower-cased
Capitalize(s) ==
    IF s = "" THEN "" ELSE UpperChar(CharAt(s, 1)) \o Lower(Tail(s))

RECURSIVE RemoveChar(_, _)
\* str.replace(c, "")
RemoveChar(s, c) ==
    IF s = "" THEN ""
    ELSE IF CharAt(s, 1) = c THEN RemoveChar(Tail(s), c)
    ELSE CharAt(s, 1) \o RemoveChar(Tail(s), c)

IsSpace(c) == c \in {" ", "\t", "\n", "\r"}

RECURSIVE LStrip(_)
LStrip(s) ==
    IF s = "" THEN ""
    ELSE IF IsSpace(CharAt(s, 1)) THEN LStrip(Tail(s)) ELSE s

RECURSIVE RStrip(_)
RStrip(s) ==
    IF s = "" THEN ""
    ELSE IF IsSpace(CharAt(s, Len(s))) THEN RStrip(SubSeq(s, 1, Len(s) - 1))
    ELSE s

\* str.strip()
Strip(s) == RStrip(LStrip(s))

RECURSIVE SplitLines(_)
\* str.splitlines() for "\n" line ends: no empty last line
SplitLines(s) ==
    IF s = "" THEN << >>
    ELSE LET p == IndexIn(s, "\n", 1)
         IN  IF p = 0 THEN << s >>
             ELSE << SubSeq(s, 1, p - 1) >> \o SplitLines(SubSeq(s, p + 1, Len(s)))

\* line.split(":", 1) of a line that contains ":"
SplitFirst(line, c) ==
    LET p == IndexIn(line, c, 1)
    IN  << SubSeq(line, 1, p - 1), SubSeq(line, p + 1, Len(line)) >>

\* dict.update(): the entries of b override those of a
DictUpdate(a, b) ==
    [k \in DOMAIN a \cup DOMAIN b |-> IF k \in DOMAIN b THEN b[k] ELSE a[k]]

EmptyDict == [k \in {} |-> ""]

(***************************************************************************)
(* detect_intents_batch: the response text is parsed line by line; a line  *)
(* with a ":" gives the entry  key |-> value,  a later line overriding an  *)
(* earlier one with the same key (dict comprehension).                     *)
(***************************************************************************)
ParseKey(line) == Lower(Strip(RemoveChar(SplitFirst(line, ":")[1], "-")))

ParseValue(line) == Capitalize(Strip(SplitFirst(line, ":")[2]))

RECURSIVE ParseLines(_)
ParseLines(lines) ==
    IF lines = << >> THEN EmptyDict
    ELSE LET n    == Len(lines)
             rest == ParseLines(SubSeq(lines, 1, n - 1))
             line == lines[n]
         IN  IF Contains(line, ":")
             THEN DictUpdate(rest, [k \in {ParseKey(line)} |-> ParseValue(line)])
             ELSE rest

detect_intents_batch(text) == ParseLines(SplitLines(Strip(text)))

(***************************************************************************)
(* Bounds of the model.                                                    *)
(***************************************************************************)
\* data rows of an uploaded file
MaxRows == 2
\* lines of one classifier response
MaxLines == 1
\* rows changed in the data editor before one save
MaxEdits == 1
\* store writes (each write takes a fresh datetime.now())
MaxClock == 2
\* batch_size of detect_all_intents_batched, scaled down
BatchSize == 1
\* rows of the files whose classification run is followed request by request
MaxBatchRows == 3

Keywords == {"foo", "Foo"}

\* the uploaded files: the 'Top queries' column, one keyword per data row
Files == UNION {[1..n -> Keywords] : n \in 1..MaxRows}

FourLabels == {"Informasional", "Komersial", "Navigasional", "Transaksional"}

\* options of the SelectboxColumn of the data editor
EditorOptions == FourLabels \cup {"Unknown"}

NaN == "<NaN>"

\* lines the external classifier may answer with
Lines == {"- foo: Informasional", "- Foo: komersial", "- foo: Maybe",
          "- foo:", "tidak tahu"}

RECURSIVE JoinLines(_)
JoinLines(ls) ==
    IF ls = << >> THEN ""
    ELSE IF Len(ls) = 1 THEN ls[1]
    ELSE ls[1] \o "\n" \o JoinLines(Tail(ls))

\* the response texts: up to MaxLines lines joined by line ends
Responses == {JoinLines(ls) : ls \in UNION {[1..n -> Lines] : n \in 0..MaxLines}}

\* keyword lists and response lines of the runs that are followed request by
\* request
BatchKeywords == Keywords \cup {"bar"}

BatchLines == Lines \cup {"- bar: Transaksional"}

BatchResponses ==
    {JoinLines(ls) : ls \in UNION {[1..n -> BatchLines] : n \in 0..MaxLines}}

\* keywords with upper-case letters, a hyphen, a colon
ApplyKeywords == {"foo", "Foo", "e-mail", "a:b"}

\* the response the prompt asks for: one line '- keyword: intent' for each
\* keyword of the batch
AnswerText(batch, labels) ==
    JoinLines([n \in 1..Len(batch) |-> "- " \o batch[n] \o ": " \o labels[n]])

Answers ==
    UNION {{AnswerText(b, l) : b \in [1..n -> ApplyKeywords], l \in [1..n -> FourLabels]} :
              n \in 1..BatchSize}

\* detect_intents_batch and str.lower() tabulated over the texts of the model
ParsedResponse == [t \in BatchResponses \cup Answers |-> detect_intents_batch(t)]

StoreKeys ==
    BatchKeywords \cup ApplyKeywords
        \cup UNION {DOMAIN ParsedResponse[t] : t \in DOMAIN ParsedResponse}

LowerOf == [k \in StoreKeys |-> Lower(k)]

(***************************************************************************)
(* DataFrame helpers.                                                      *)
(***************************************************************************)
Row(k, i) == [kw |-> k, intent |-> i]

RECURSIVE SelectSeq2(_, _)
\* the rows of seq whose index is in S, in order (boolean-mask selection)
SelectSeq2(seq, S) ==
    IF seq = << >> THEN << >>
    ELSE LET n == Len(seq)
             front == SelectSeq2(SubSeq(seq, 1, n - 1), S)
         IN  IF n \in S THEN Append(front, seq[n]) ELSE front

RECURSIVE Unique(_)
\* Series.unique(): first occurrences, in order
Unique(seq) ==
    IF seq = << >> THEN << >>
    ELSE LET n == Len(seq)
             front == Unique(SubSeq(seq, 1, n - 1))
         IN  IF \E i \in 1..Len(front) : front[i] = seq[n]
             THEN front ELSE Append(front, seq[n])

RECURSIVE Flatten(_)
Flatten(ss) ==
    IF ss = << >> THEN << >> ELSE ss[1] \o Flatten(Tail(ss))

RECURSIVE DictItems(_)
\* list(d.items()) as rows; the keys of a dict are distinct
DictItems(d) ==
    IF DOMAIN d = {} THEN << >>
    ELSE LET k == CHOOSE x \in DOMAIN d : TRUE
         IN  << Row(k, d[k]) >> \o DictItems([x \in DOMAIN d \ {k} |-> d[x]])

HasDuplicates(seq) == \E i, j \in 1..Len(seq) : i # j /\ seq[i] = seq[j]

Range(seq) == {seq[i] : i \in 1..Len(seq)}

\* the orders in which SELECT without ORDER BY may return the records
Orderings(S) ==
    {o \in [1..Cardinality(S) -> S] : \A i, j \in 1..Cardinality(S) : i # j => o[i] # o[j]}

(***************************************************************************)
(* The intent store: top_query |-> (keyword_intent, tanggal_data_diupdate) *)
(***************************************************************************)
EmptyStore == [k \in {} |-> [intent |-> "", ts |-> 0]]

\* save_to_db: the rows that survive dropna and the 'Unknown' filter
SaveFilter(rows) ==
    SelectSeq2(rows, {i \in 1..Len(rows) :
                        rows[i].intent # NaN /\ rows[i].intent # "Unknown"})

RECURSIVE Upsert(_, _, _)
\* INSERT ... ON CONFLICT (top_query) DO UPDATE, one row after the other
Upsert(st, rows, now) ==
    IF rows = << >> THEN st
    ELSE LET n == Len(rows)
             before == Upsert(st, SubSeq(rows, 1, n - 1), now)
         IN  [k \in DOMAIN before \cup {rows[n].kw} |->
                IF k = rows[n].kw THEN [intent |-> rows[n].intent, ts |-> now]
                ELSE before[k]]

save_to_db(st, rows, now) ==
    IF SaveFilter(rows) = << >> THEN st ELSE Upsert(st, SaveFilter(rows), now)

\* fetch_existing_intents, had a failed read still returned the records
fetch_existing_intents_IgnoreFailure(st, ord, readOk) ==
    [i \in 1..Len(ord) |->
        [top_query |-> LowerOf[ord[i]], keyword_intent |-> st[ord[i]].intent]]

\* fetch_existing_intents: the records in the order read, top_query lower-cased;
\* the empty frame when the read fails
fetch_existing_intents(st, ord, readOk) ==
    IF readOk
    THEN [i \in 1..Len(ord) |->
            [top_query |-> LowerOf[ord[i]], keyword_intent |-> st[ord[i]].intent]]
    ELSE << >>

(***************************************************************************)
(* What the session holds before an upload.                                *)
(***************************************************************************)
NoLast == [op |-> "none"]

NoEditor == [pending |-> FALSE]

NoCalls == [kws |-> << >>, log |-> << >>, done |-> FALSE, ret |-> EmptyDict]

NoMetric == [stage |-> "none"]

NoSchema == [stage |-> "none"]

(***************************************************************************)
(* Header handling of the upload: the positional strategy of app.py        *)
(* (128-152) and the keyword strategy of app2.py (119-163). The header row *)
(* of the file is a sequence of distinct header strings.                   *)
(***************************************************************************)
StandardHeaders ==
    << "Top queries", "Last 3 months Clicks", "Previous 3 months Clicks",
       "Last 3 months Impressions", "Previous 3 months Impressions",
       "Last 3 months CTR", "Previous 3 months CTR",
       "Last 3 months Position", "Previous 3 months Position" >>

\* the header strings of the model, in the order they take in a file
HeaderPool ==
    << "Top queries", "Kueri teratas ", "Klik lalu", "Klik kini", "CTR per klik",
       "Tayangan lalu", "Tayangan kini", "CTR lalu", "CTR kini",
       "Posisi lalu", "Posisi kini", " Posisi rata", "Tanggal" >>

\* the header rows: the headers of a subset of the pool, in pool order
HeaderRows ==
    {SelectSeq2(HeaderPool, S) : S \in SUBSET (1..Len(HeaderPool))}

RECURSIVE FindStr(_, _, _)
\* position of the first occurrence of t in s at or after i, 0 when absent
FindStr(s, t, i) ==
    IF i + Len(t) - 1 > Len(s) THEN 0
    ELSE IF SubSeq(s, i, i + Len(t) - 1) = t THEN i
    ELSE FindStr(s, t, i + 1)

\* t in s
InStr(t, s) == FindStr(s, t, 1) # 0

\* the characters of lower-cased headers in code point order
CodeOrder == " 0123456789abcdefghijklmnopqrstuvwxyz"

RECURSIVE StrLess(_, _)
\* a < b on str
StrLess(a, b) ==
    IF b = "" THEN FALSE
    ELSE IF a = "" THEN TRUE
    ELSE IF CharAt(a, 1) = CharAt(b, 1) THEN StrLess(Tail(a), Tail(b))
    ELSE IndexIn(CodeOrder, CharAt(a, 1), 1) < IndexIn(CodeOrder, CharAt(b, 1), 1)

\* df.columns.str.strip() and col.lower() tabulated over the headers
StrippedOf == [h \in Range(HeaderPool) |-> Strip(h)]

KeyOf == [c \in {StrippedOf[h] : h \in Range(HeaderPool)} |-> Lower(c)]

MetricTokens == {"klik", "tayangan", "ctr", "posisi"}

TokensIn == [c \in DOMAIN KeyOf |-> {t \in MetricTokens : InStr(t, KeyOf[c])}]

KeyLess == [p \in (DOMAIN KeyOf) \X (DOMAIN KeyOf) |-> StrLess(KeyOf[p[1]], KeyOf[p[2]])]

RECURSIVE SortedByKey(_)
\* sorted(cols, key=lambda x: x.lower()): stable, equal keys keep their order
SortedByKey(cols) ==
    IF cols = << >> THEN << >>
    ELSE LET n == Len(cols)
             front == SortedByKey(SubSeq(cols, 1, n - 1))
             at == Cardinality({i \in 1..Len(front) : ~KeyLess[<<cols[n], front[i]>>]})
         IN  SubSeq(front, 1, at) \o << cols[n] >> \o SubSeq(front, at + 1, Len(front))

detect_metric_columns(columns, keyword) ==
    SortedByKey(SelectSeq2(columns,
                           {i \in 1..Len(columns) : keyword \in TokensIn[columns[i]]}))

keyword_col_candidates == {"Top queries", "Kueri teratas"}

\* dict built from (key, value) items: a later item replaces an earlier one
\* with the same key
DictOf(items) ==
    [k \in {items[i][1] : i \in 1..Len(items)} |->
        items[CHOOSE i \in 1..Len(items) :
                 /\ items[i][1] = k
                 /\ \A j \in (i + 1)..Len(items) : items[j][1] # k][2]]

\* {v: k for k, v in column_mapping.items()}; the values of column_mapping are
\* distinct in both strategies
ReverseOf(m) ==
    [v \in {m[k] : k \in DOMAIN m} |-> CHOOSE k \in DOMAIN m : m[k] = v]

\* dict.get(c, c) over a list of columns (DataFrame.rename)
Rename(columns, m) ==
    [i \in 1..Len(columns) |->
        IF columns[i] \in DOMAIN m THEN m[columns[i]] ELSE columns[i]]

Mapped(strategy, headers, mapping, columns) ==
    [stage |-> "mapped", strategy |-> strategy, headers |-> headers,
     column_mapping |-> mapping, reverse_mapping |-> ReverseOf(mapping),
     columns |-> columns]

SchemaError(strategy, headers) ==
    [stage |-> "error", strategy |-> strategy, headers |-> headers]

\* app.py: the standard headers are applied by position
PositionalSchema(original_headers) ==
    IF Len(original_headers) < Len(StandardHeaders)
    THEN SchemaError("positional", original_headers)
    ELSE LET n == Len(StandardHeaders)
         IN  Mapped("positional", original_headers,
                    DictOf([i \in 1..n |-> <<original_headers[i], StandardHeaders[i]>>]),
                    StandardHeaders)

\* metric_cols of app2.py: a canonical metric column the file lacks is added
metric_cols ==
    << "Last 3 months CTR", "Previous 3 months CTR",
       "Last 3 months Position", "Previous 3 months Position",
       "Last 3 months Impressions", "Previous 3 months Impressions",
       "Last 3 months Clicks", "Previous 3 months Clicks" >>

WithMissingMetrics(columns) ==
    columns \o SelectSeq2(metric_cols,
                          {i \in 1..Len(metric_cols) : metric_cols[i] \notin Range(columns)})

\* the validation of app2.py: two columns for each metric family
MetricCountsValid_AtLeastTwo(clicks, impressions, ctr, position) ==
    /\ Len(clicks) >= 2
    /\ Len(impressions) >= 2
    /\ Len(ctr) >= 2
    /\ Len(position) >= 2

MetricCountsValid(clicks, impressions, ctr, position) ==
    /\ Len(clicks) = Len(impressions)
    /\ Len(impressions) = Len(ctr)
    /\ Len(ctr) = Len(position)
    /\ Len(position) = 2

\* app2.py: the columns are found by the words their stripped names contain
KeywordSchema(original_headers) ==
    LET columns == [i \in 1..Len(original_headers) |-> StrippedOf[original_headers[i]]]
        found == {i \in 1..Len(columns) : columns[i] \in keyword_col_candidates}
        clicks_cols == detect_metric_columns(columns, "klik")
        impressions_cols == detect_metric_columns(columns, "tayangan")
        ctr_cols == detect_metric_columns(columns, "ctr")
        position_cols == detect_metric_columns(columns, "posisi")
    IN  IF found = {} THEN SchemaError("keyword", original_headers)
        ELSE IF ~MetricCountsValid(clicks_cols, impressions_cols, ctr_cols, position_cols)
        THEN SchemaError("keyword", original_headers)
        ELSE LET keyword_col == columns[CHOOSE i \in found : \A j \in found : i <= j]
                 column_mapping ==
                    DictOf(<< <<clicks_cols[2], "Last 3 months Clicks">>,
                              <<clicks_cols[1], "Previous 3 months Clicks">>,
                              <<impressions_cols[2], "Last 3 months Impressions">>,
                              <<impressions_cols[1], "Previous 3 months Impressions">>,
                              <<ctr_cols[2], "Last 3 months CTR">>,
                              <<ctr_cols[1], "Previous 3 months CTR">>,
                              <<position_cols[2], "Last 3 months Position">>,
                              <<position_cols[1], "Previous 3 months Position">>,
                              <<keyword_col, "Top queries">> >>)
             IN  Mapped("keyword", original_headers, column_mapping,
                        WithMissingMetrics(Rename(columns, column_mapping)))

(***************************************************************************)
(* Metric cleaning and flagging of the upload (app.py 159-169).  A CTR     *)
(* value is an IEEE-754 double, written the way Python prints it (the      *)
(* shortest decimal that reads back as that double) without exponent, so   *)
(* 0.018 and 0.018000000000000002 are two values.  Doubles are ordered as  *)
(* these decimals are.  The quotient by 100 and the product with 0.9 are   *)
(* rounded by the processor; they are given for the values of the model.   *)
(***************************************************************************)
Digits == "0123456789"

RECURSIVE AllDigits(_)
AllDigits(s) ==
    IF s = "" THEN TRUE
    ELSE Contains(Digits, CharAt(s, 1)) /\ AllDigits(Tail(s))

RECURSIVE PadRight(_, _)
PadRight(s, n) == IF Len(s) >= n THEN s ELSE PadRight(s \o "0", n)

RECURSIVE PadLeft(_, _)
PadLeft(s, n) == IF Len(s) >= n THEN s ELSE PadLeft("0" \o s, n)

RECURSIVE StripLeadingZeros(_)
StripLeadingZeros(s) ==
    IF Len(s) > 0 /\ CharAt(s, 1) = "0" THEN StripLeadingZeros(Tail(s)) ELSE s

RECURSIVE StripTrailingZeros(_)
StripTrailingZeros(s) ==
    IF Len(s) > 0 /\ CharAt(s, Len(s)) = "0"
    THEN StripTrailingZeros(SubSeq(s, 1, Len(s) - 1))
    ELSE s

IntegerPart(t) == IF Contains(t, ".") THEN SplitFirst(t, ".")[1] ELSE t

FractionPart(t) == IF Contains(t, ".") THEN SplitFirst(t, ".")[2] ELSE ""

\* pd.to_numeric accepts the cell: an unsigned decimal of at most fifteen
\* digits (such a decimal names the double nearest to it), blanks around it
\* allowed
IsNumeric(s) ==
    LET t == Strip(s)
    IN  /\ AllDigits(IntegerPart(t))
        /\ AllDigits(FractionPart(t))
        /\ Len(IntegerPart(t)) + Len(FractionPart(t)) > 0
        /\ Len(IntegerPart(t)) + Len(FractionPart(t)) <= 15

\* the double pd.to_numeric gives an accepted cell
NumericValue(s) ==
    LET t == Strip(s)
        i == StripLeadingZeros(IntegerPart(t))
        f == StripTrailingZeros(FractionPart(t))
    IN  (IF i = "" THEN "0" ELSE i) \o "." \o (IF f = "" THEN "0" ELSE f)

\* astype(str).str.replace('%', ''), to_numeric(errors='coerce'), fillna(0)
CleanCtrCell(s) ==
    LET t == RemoveChar(s, "%")
    IN  IF IsNumeric(t) THEN NumericValue(t) ELSE "0.0"

RECURSIVE DigitsLess(_, _)
\* two digit strings of one length, compared from the left
DigitsLess(a, b) ==
    IF a = "" THEN FALSE
    ELSE IF CharAt(a, 1) # CharAt(b, 1)
    THEN IndexIn(Digits, CharAt(a, 1), 1) < IndexIn(Digits, CharAt(b, 1), 1)
    ELSE DigitsLess(Tail(a), Tail(b))

\* a < b of two doubles
Less(a, b) ==
    LET m == IF Len(IntegerPart(a)) > Len(IntegerPart(b))
             THEN Len(IntegerPart(a)) ELSE Len(IntegerPart(b))
        n == IF Len(FractionPart(a)) > Len(FractionPart(b))
             THEN Len(FractionPart(a)) ELSE Len(FractionPart(b))
    IN  DigitsLess(PadLeft(IntegerPart(a), m) \o PadRight(FractionPart(a), n),
                   PadLeft(IntegerPart(b), m) \o PadRight(FractionPart(b), n))

\* x / 100 in doubles
DividedBy100 ==
       ("0.0" :> "0.0")
    @@ ("0.00017999999999999998" :> "0.0000018")
    @@ ("0.0002" :> "0.000002")
    @@ ("0.00045" :> "0.0000045")
    @@ ("0.0005" :> "0.000005")
    @@ ("0.0025" :> "0.000025")
    @@ ("0.005" :> "0.00005")
    @@ ("0.018" :> "0.00017999999999999998")
    @@ ("0.018000000000000002" :> "0.00018")
    @@ ("0.02" :> "0.0002")
    @@ ("0.045" :> "0.00045")
    @@ ("0.05" :> "0.0005")
    @@ ("0.25" :> "0.0025")
    @@ ("0.5" :> "0.005")
    @@ ("1.8" :> "0.018000000000000002")
    @@ ("2.0" :> "0.02")
    @@ ("2.5" :> "0.025")
    @@ ("4.5" :> "0.045")
    @@ ("5.0" :> "0.05")
    @@ ("250.0" :> "2.5")

\* x * 0.9 in doubles
TimesNineTenths ==
       ("0.0" :> "0.0")
    @@ ("0.00017999999999999998" :> "0.00016199999999999998")
    @@ ("0.0002" :> "0.00018")
    @@ ("0.00045" :> "0.000405")
    @@ ("0.0005" :> "0.00045000000000000004")
    @@ ("0.0025" :> "0.0022500000000000003")
    @@ ("0.005" :> "0.0045000000000000005")
    @@ ("0.018" :> "0.0162")
    @@ ("0.018000000000000002" :> "0.016200000000000003")
    @@ ("0.02" :> "0.018000000000000002")
    @@ ("0.045" :> "0.0405")
    @@ ("0.05" :> "0.045000000000000005")
    @@ ("0.25" :> "0.225")
    @@ ("0.5" :> "0.45")
    @@ ("1.8" :> "1.62")
    @@ ("2.0" :> "1.8")
    @@ ("2.5" :> "2.25")
    @@ ("4.5" :> "4.05")
    @@ ("5.0" :> "4.5")
    @@ ("250.0" :> "225.0")

\* the doubles of the model, and the thresholds they are compared with
CtrValues ==
    (DOMAIN DividedBy100) \cup {DividedBy100[x] : x \in DOMAIN DividedBy100}
        \cup {TimesNineTenths[x] : x \in DOMAIN TimesNineTenths}
        \cup {"0.02", "1.0", "100.0"}

\* the place of a double among the doubles of the model
RankOf == [v \in CtrValues |-> Cardinality({u \in CtrValues : Less(u, v)})]

\* a < b of two doubles of the model
Before(a, b) == RankOf[a] < RankOf[b]

\* the CTR cells of the model
CtrCells == {"5%", "0.5%", "1.8%", "250", "0.25", "abc"}

FlagCells == {"4.5%", "5%", "1.8%", "2%", "0.018", "0.02", "0.045", "0.05"}

CleanedCell == [c \in CtrCells \cup FlagCells |-> CleanCtrCell(c)]

ColumnMax(col) == CHOOSE m \in Range(col) : \A v \in Range(col) : ~Before(m, v)

\* the division, had it been made whatever the column maximum
NormalizeCtr_AlwaysDivide(col) == [i \in DOMAIN col |-> DividedBy100[col[i]]]

\* if df[col].max() > 1: df[col] /= 100
NormalizeCtr(col) ==
    IF Before("1.0", ColumnMax(col))
    THEN [i \in DOMAIN col |-> DividedBy100[col[i]]]
    ELSE col

ParsedColumn(cells) == [i \in DOMAIN cells |-> CleanedCell[cells[i]]]

\* df['Last 3 months CTR'] < df['Previous 3 months CTR'] * 0.9
ctr_drop(r) == Before(r.last_ctr, TimesNineTenths[r.prev_ctr])

low_ctr_high_position(r) ==
    /\ Before(r.last_ctr, "0.02")
    /\ r.last_position < 3
    /\ r.last_impressions > 5000

click_down_impr_up(r) ==
    /\ r.last_clicks < r.prev_clicks
    /\ r.last_impressions > r.prev_impressions

NeedsOptimization_NotStrict(r) ==
    \/ ~Before(TimesNineTenths[r.prev_ctr], r.last_ctr)
    \/ low_ctr_high_position(r)
    \/ click_down_impr_up(r)

NeedsOptimization(r) ==
    ctr_drop(r) \/ low_ctr_high_position(r) \/ click_down_impr_up(r)

\* the metric columns of a file are a sequence of rows: the two CTR cells as
\* written in the file, the other metrics as whole numbers.  Cleaning gives
\* the parsed and the normalised CTR columns, then the flag of every row.
CleanMetrics(rows) ==
    LET last_parsed == ParsedColumn([i \in DOMAIN rows |-> rows[i].last_ctr])
        prev_parsed == ParsedColumn([i \in DOMAIN rows |-> rows[i].prev_ctr])
        last_ctr == NormalizeCtr(last_parsed)
        prev_ctr == NormalizeCtr(prev_parsed)
        cleaned == [i \in DOMAIN rows |->
                       [rows[i] EXCEPT !.last_ctr = last_ctr[i],
                                       !.prev_ctr = prev_ctr[i]]]
    IN  [stage |-> "clean", rows |-> rows,
         last_parsed |-> last_parsed, prev_parsed |-> prev_parsed,
         last_ctr |-> last_ctr, prev_ctr |-> prev_ctr, cleaned |-> cleaned,
         needs |-> [i \in DOMAIN rows |-> NeedsOptimization(cleaned[i])]]

\* a row no rule flags, and a row whose CTR fell by a tenth
PlainRow ==
    [last_ctr |-> "0.02", prev_ctr |-> "0.02", last_position |-> 3,
     last_impressions |-> 5000, prev_impressions |-> 5000,
     last_clicks |-> 10, prev_clicks |-> 10]

DroppedRow == [PlainRow EXCEPT !.last_ctr = "4.5%", !.prev_ctr = "5%"]

\* the metric columns of an uploaded file of n rows: no row flagged, or,
\* for a file of one row, the row flagged
MetricTables(n) ==
    {[i \in 1..n |-> PlainRow]} \cup (IF n = 1 THEN {<< DroppedRow >>} ELSE {})

(***************************************************************************)
(* Dataset load (file upload).  The header row decides whether the file is *)
(* taken; the metric columns are cleaned and flagged; the keyword column   *)
(* is joined with the store's records on the lower-cased keyword.          *)
(***************************************************************************)
\* a script run that is left before its end (st.stop(), st.rerun(), or a
\* rerun request taken up inside a Streamlit call) loses its local variables:
\* the keyword list, the loop index and the mapping collected so far
EndRun ==
    /\ pc' = "idle"
    /\ keywords' = << >>
    /\ idx' = 0
    /\ all_intents' = EmptyDict

\* pd.merge(df, df_existing_intents, left_on='query_lower', right_on='top_query',
\* how='left') followed by fillna('Unknown'): one row per matching record
MergeRow(k, existing) ==
    LET hits == SelectSeq2(existing,
                           {i \in 1..Len(existing) : existing[i].top_query = LowerOf[k]})
    IN  IF hits = << >> THEN << Row(k, "Unknown") >>
        ELSE [j \in 1..Len(hits) |->
                Row(k, IF hits[j].keyword_intent = NaN THEN "Unknown"
                       ELSE hits[j].keyword_intent)]

LoadedFrame(f, existing) ==
    IF existing = << >>
    THEN [i \in 1..Len(f) |-> Row(f[i], "Unknown")]
    ELSE Flatten([i \in 1..Len(f) |-> MergeRow(f[i], existing)])

\* the file row each row of the merged dataset comes from
MergeOrigin(f, existing) ==
    IF existing = << >>
    THEN [i \in 1..Len(f) |-> i]
    ELSE Flatten([i \in 1..Len(f) |->
                    [j \in 1..Len(MergeRow(f[i], existing)) |-> i]])

\* the merge repeats the whole row of the file, its cleaned metric columns
\* and its flag with its keyword: the columns of the dataset have a row for
\* every row of the merged dataset (rows, last_parsed and prev_parsed stay
\* the cells of the file and their values before the normalisation)
MergedMetrics(mt, origin) ==
    [mt EXCEPT !.last_ctr = [j \in DOMAIN origin |-> mt.last_ctr[origin[j]]],
               !.prev_ctr = [j \in DOMAIN origin |-> mt.prev_ctr[origin[j]]],
               !.cleaned = [j \in DOMAIN origin |-> mt.cleaned[origin[j]]],
               !.needs = [j \in DOMAIN origin |-> mt.needs[origin[j]]]]

\* a header row the positional strategy takes, the same row without its last
\* header, and the header row of an empty file, whose read raises
ExportHeaders == SelectSeq2(HeaderPool, {1, 3, 4, 6, 7, 8, 9, 10, 11})

UploadHeaders == {SubSeq(ExportHeaders, 1, n) : n \in {0, 8, 9}}

\* the cleaned metric columns of the files of the model
Cleaned ==
    [m \in UNION {MetricTables(n) : n \in (1..MaxRows) \cup (1..MaxBatchRows)} |->
        CleanMetrics(m)]

\* where the run that reads the file ends: "done" at st.rerun() with the
\* dataset stored (182-183); "upload" in the first spinner (123), nothing
\* read yet; "mapped" after the mapping was stored (151-152), in the exit
\* of the first spinner, the entry of the second or a message of the store
\* read, the dataset not stored.  A run ends before its end when a rerun
\* request (another widget of the page) is taken up inside a Streamlit call.
LoadStops == {"upload", "mapped", "done"}

\* the file in the uploader, its header row read or not
Uploaded(h) == [stage |-> "upload", strategy |-> "positional", headers |-> h]

\* the metric columns of the file in the uploader, not cleaned
RawMetric(m) == [stage |-> "raw", rows |-> m]

\* the operator uploads a file: a run under way is stopped, the on_change
\* callback drops the old dataset and mapping, and the run that follows reads
\* the file.  f is the column read as 'Top queries', h the header row, m the
\* metric columns; get_db_conn() gives conn (a connection or None); ord is
\* the order in which the store returns its records, readOk whether the read
\* succeeds; stop is where the run ends.  A file with too few columns, or one
\* that cannot be read, ends the run in st.error and st.stop(): the session
\* has no dataset.
Load(f, h, m, conn, ord, readOk, stop) ==
    /\ file' = f
    /\ EndRun
    /\ UNCHANGED <<store, clock>>
    /\ IF stop = "upload"
       THEN /\ schema' = Uploaded(h)
            /\ loaded' = FALSE
            /\ df' = << >>
            /\ metric' = RawMetric(m)
       ELSE /\ schema' = PositionalSchema(h)
            /\ IF schema'.stage = "error"
               THEN /\ loaded' = FALSE
                    /\ df' = << >>
                    /\ metric' = NoMetric
               ELSE IF stop = "mapped"
               THEN /\ loaded' = FALSE
                    /\ df' = << >>
                    /\ metric' = RawMetric(m)
               ELSE \E existing \in {IF conn
                                      THEN fetch_existing_intents(store, ord, readOk)
                                      ELSE << >>} :
                       /\ loaded' = TRUE
                       /\ metric' = MergedMetrics(Cleaned[m], MergeOrigin(f, existing))
                       /\ df' = LoadedFrame(f, existing)

\* the run after one that was stopped finds the file in the uploader and no
\* dataset in the session: it reads the file again from its first line.
\* No callback runs (the file is the same), so a run stopped in the first
\* spinner leaves the session, a mapping of the earlier run included, as it
\* was
ResumeLoad(conn, ord, readOk, stop) ==
    /\ schema.stage \in {"upload", "mapped"}
    /\ ~loaded
    /\ IF stop = "upload"
       THEN /\ EndRun
            /\ UNCHANGED <<file, loaded, df, store, clock, schema, metric>>
       ELSE Load(file, schema.headers, metric.rows, conn, ord, readOk, stop)

\* the operator removes the file from the uploader: a run under way is
\* stopped, the callback drops the dataset and the mapping, and the run that
\* follows finds no file
ClearUpload ==
    /\ schema.stage # "none"
    /\ file' = << >>
    /\ loaded' = FALSE
    /\ df' = << >>
    /\ schema' = NoSchema
    /\ metric' = NoMetric
    /\ EndRun
    /\ UNCHANGED <<store, clock>>

\* the metric columns and the mapping of a session that has loaded f, its
\* dataset joined with the records existing
LoadedMetric(f, existing) ==
    MergedMetrics(Cleaned[[i \in 1..Len(f) |-> PlainRow]], MergeOrigin(f, existing))

LoadedSchema == PositionalSchema(ExportHeaders)

(***************************************************************************)
(* Classification run ('Generate & Save Intent').                          *)
(***************************************************************************)
UnknownRows(d) == {i \in 1..Len(d) : d[i].intent = "Unknown"}

KeywordColumn(d) == [i \in 1..Len(d) |-> d[i].kw]

\* the button is disabled when no row is Unknown
StartRun ==
    /\ pc = "idle"
    /\ loaded
    /\ UnknownRows(df) # {}
    /\ keywords' = Unique(KeywordColumn(SelectSeq2(df, UnknownRows(df))))
    /\ idx' = 0
    /\ all_intents' = EmptyDict
    /\ pc' = "run"
    /\ UNCHANGED <<file, loaded, df, store, clock>>

\* merge of the new intents into the working dataset: new_intent, where
\* present, is taken before the row's own keyword_intent (combine_first)
MergeIntents(d, new) ==
    [i \in 1..Len(d) |->
        IF LowerOf[d[i].kw] \in DOMAIN new
        THEN Row(d[i].kw, new[LowerOf[d[i].kw]])
        ELSE d[i]]

\* how the handler ends once detect_all_intents_batched has returned:
\* "done" at st.rerun() (217); "raised" when the cached connection is no
\* longer open and init_db or save_to_db raises (206, 208; neither is in a
\* try); "stopped" when a rerun request is taken up in st.success (209) or
\* in the exit of the spinner, the store written and the dataset not merged
RunEnds == {"done", "raised", "stopped"}

\* a rerun request (a widget of the page other than the uploader and the
\* save button) stops the classification run inside its next Streamlit call
StopRun ==
    /\ pc = "run"
    /\ EndRun
    /\ UNCHANGED <<file, loaded, df, store, clock>>

\* the handler after detect_all_intents_batched returned new; conn is what
\* get_db_conn() gives (a connection object or None)
FinishRun(new, conn, end) ==
    /\ EndRun
    /\ UNCHANGED <<file, loaded>>
    /\ end = "raised" => conn
    /\ IF new = EmptyDict \/ end = "raised"
       THEN UNCHANGED <<df, store, clock>>
       ELSE /\ df' = IF end = "stopped" THEN df ELSE MergeIntents(df, new)
            /\ IF conn
               THEN /\ store' = save_to_db(store, DictItems(new), clock + 1)
                    /\ clock' = IF SaveFilter(DictItems(new)) = << >>
                                THEN clock ELSE clock + 1
                    /\ clock' <= MaxClock
               ELSE UNCHANGED <<store, clock>>

\* batch = keywords[i:i+batch_size]
CurrentBatch == SubSeq(keywords, idx + 1,
                       IF idx + BatchSize < Len(keywords)
                       THEN idx + BatchSize ELSE Len(keywords))

\* what the handler meets once the loop is left: a connection or none, and
\* one of the ends; a pass that is not the last meets none of it
RunCases ==
    IF idx + BatchSize < Len(keywords)
    THEN {[conn |-> FALSE, end |-> "done"]}
    ELSE {c \in [conn : BOOLEAN, end : RunEnds] : c.end = "raised" => c.conn}

\* all_intents.update(result) with the result parsed from the response text
LoopResult(text) == DictUpdate(all_intents, ParsedResponse[text])

\* one pass of the loop of detect_all_intents_batched whose request succeeds
BatchOk(text, conn, end) ==
    /\ pc = "run"
    /\ idx < Len(keywords)
    /\ IF idx + BatchSize < Len(keywords)
       THEN /\ all_intents' = LoopResult(text)
            /\ idx' = idx + BatchSize
            /\ UNCHANGED <<file, loaded, df, store, clock, pc, keywords>>
       ELSE FinishRun(LoopResult(text), conn, end)

\* a pass whose request raises, had the loop gone on to the next batch
BatchFail_Continue(conn, end) ==
    /\ pc = "run"
    /\ idx < Len(keywords)
    /\ IF idx + BatchSize < Len(keywords)
       THEN /\ idx' = idx + BatchSize
            /\ UNCHANGED <<file, loaded, df, store, clock, pc, keywords, all_intents>>
       ELSE FinishRun(all_intents, conn, end)

\* one pass whose request raises: the loop is left (break)
BatchFail(conn, end) ==
    /\ pc = "run"
    /\ idx < Len(keywords)
    /\ FinishRun(all_intents, conn, end)

(***************************************************************************)
(* Manual save ('Simpan Perubahan Manual'). The data editor shows the rows *)
(* view of the working dataset; edits gives the labels the operator chose  *)
(* for some of them.                                                       *)
(***************************************************************************)
RECURSIVE SortedSeq(_)
\* the members of a set of row numbers in increasing order
SortedSeq(S) ==
    IF S = {} THEN << >>
    ELSE LET m == CHOOSE x \in S : \A y \in S : x <= y
         IN  << m >> \o SortedSeq(S \ {m})

\* the label the editor holds for dataset row i
EditedLabel(d, edits, i) == IF i \in DOMAIN edits THEN edits[i] ELSE d[i].intent

\* edited_df: the rows of the view as the editor returns them
EditedFrame(d, view, edits) ==
    LET rows == SortedSeq(view)
    IN  [j \in 1..Len(rows) |-> Row(d[rows[j]].kw, EditedLabel(d, edits, rows[j]))]

\* df.merge(edited_df, on='Top queries', how='inner'): every pair of a dataset
\* row and an edited row with the same keyword, dataset order first
ComparisonPairs(d, e) ==
    Flatten([i \in 1..Len(d) |->
        SelectSeq2([j \in 1..Len(e) |->
                      [kw |-> d[i].kw, original |-> d[i].intent, edited |-> e[j].intent]],
                   {j \in 1..Len(e) : e[j].kw = d[i].kw})])

\* changed_rows, as df_changes: keyword and edited label
ChangedRows(d, e) ==
    LET c == ComparisonPairs(d, e)
        changed == SelectSeq2(c, {n \in 1..Len(c) : c[n].original # c[n].edited})
    IN  [n \in 1..Len(changed) |-> Row(changed[n].kw, changed[n].edited)]

\* df_state.update(df_changes) on the keyword index (pandas 1.x / 2.x): with
\* equal indexes the rows are taken by position; otherwise df_changes is
\* reindexed, which raises when its index has duplicate keywords
UpdateRaises(d, changes) ==
    /\ HasDuplicates(KeywordColumn(changes))
    /\ KeywordColumn(changes) # KeywordColumn(d)

UpdateFrame(d, changes) ==
    IF KeywordColumn(changes) = KeywordColumn(d)
    THEN [i \in 1..Len(d) |->
            IF changes[i].intent = NaN THEN d[i] ELSE Row(d[i].kw, changes[i].intent)]
    ELSE [i \in 1..Len(d) |->
            IF \E n \in 1..Len(changes) :
                  changes[n].kw = d[i].kw /\ changes[n].intent # NaN
            THEN Row(d[i].kw,
                     (CHOOSE r \in Range(changes) : r.kw = d[i].kw).intent)
            ELSE d[i]]

\* how the handler ends once df_changes is not empty and get_db_conn gave a
\* connection: "done" when init_db and save_to_db returned; "raised" when
\* the cached connection is closed and init_db raises; "stopped" when a
\* rerun request is taken up in st.spinner; "failed" when init_db returned
\* and save_to_db raises in its use of the connection (64-66), which it
\* reaches only with a row that passes its filter. The last three leave the
\* store and the working dataset as they were; save_to_db is called in
\* "done" and in "failed".
SaveEnds == {"done", "raised", "stopped", "failed"}

\* the connection and the end of one press of the button
SaveCases == {c \in [conn : BOOLEAN, end : SaveEnds] : c.end # "done" => c.conn}

\* pressed during a classification run, the button stops the run first
ManualSave(view, edits, conn, end) ==
    /\ loaded
    /\ EndRun
    /\ \E changes \in {ChangedRows(df, EditedFrame(df, view, edits))} :
           /\ end # "done" => (conn /\ changes # << >>)
           /\ end = "failed" => SaveFilter(changes) # << >>
           /\ IF changes = << >> \/ ~conn \/ end # "done"
              THEN UNCHANGED <<df, store, clock>>
              ELSE
                /\ store' = save_to_db(store, changes, clock + 1)
                /\ clock' = IF SaveFilter(changes) = << >> THEN clock ELSE clock + 1
                /\ clock' <= MaxClock
                /\ df' = IF UpdateRaises(df, changes) THEN df
                         ELSE UpdateFrame(df, changes)
    /\ UNCHANGED <<file, loaded>>

\* the edits the operator can make in one view: up to MaxEdits rows changed
EditsIn(view, labels) ==
    UNION {[S -> labels] : S \in {T \in SUBSET view : Cardinality(T) <= MaxEdits}}

EditsOf(view) == EditsIn(view, EditorOptions)

(***************************************************************************)
(* The session: upload and the runs that repeat it after a stop, removal   *)
(* of the file, classification run and its stop, manual save.              *)
(***************************************************************************)
Init ==
    /\ file = << >>
    /\ loaded = FALSE
    /\ df = << >>
    /\ store = EmptyStore
    /\ clock = 0
    /\ pc = "idle"
    /\ keywords = << >>
    /\ idx = 0
    /\ all_intents = EmptyDict
    /\ editor = NoEditor
    /\ last = NoLast
    /\ calls = NoCalls
    /\ metric = NoMetric
    /\ schema = NoSchema

\* what the upload of a file with the header row h meets: a run stopped
\* before its end, one that gets no connection, and one that does not take
\* the file, read no record of the store
LoadCases(h, ords) ==
    {[conn |-> FALSE, ord |-> << >>, readOk |-> FALSE, stop |-> s] : s \in LoadStops}
        \cup IF PositionalSchema(h).stage = "error" THEN {}
             ELSE {[conn |-> TRUE, ord |-> o, readOk |-> r, stop |-> "done"] :
                      o \in ords, r \in BOOLEAN}

DoLoad ==
    \E ords \in {Orderings(DOMAIN store)} :
        \E f \in Files, h \in UploadHeaders :
            \E m \in MetricTables(Len(f)), c \in LoadCases(h, ords) :
                Load(f, h, m, c.conn, c.ord, c.readOk, c.stop)

DoResumeLoad ==
    /\ schema.stage \in {"upload", "mapped"}
    /\ \E c \in LoadCases(schema.headers, Orderings(DOMAIN store)) :
          ResumeLoad(c.conn, c.ord, c.readOk, c.stop)

DoBatchOk == \E text \in Responses, c \in RunCases : BatchOk(text, c.conn, c.end)

DoBatchFail == \E conn \in BOOLEAN, end \in RunEnds : BatchFail(conn, end)

DoManualSave ==
    \E view \in SUBSET (1..Len(df)), c \in SaveCases :
        \E edits \in EditsOf(view) : ManualSave(view, edits, c.conn, c.end)

Next ==
    \/ DoLoad /\ UNCHANGED <<editor, last, calls>>
    \/ DoResumeLoad /\ UNCHANGED <<editor, last, calls>>
    \/ ClearUpload /\ UNCHANGED <<editor, last, calls>>
    \/ StartRun /\ UNCHANGED <<editor, last, calls, metric, schema>>
    \/ StopRun /\ UNCHANGED <<editor, last, calls, metric, schema>>
    \/ DoBatchOk /\ UNCHANGED <<editor, last, calls, metric, schema>>
    \/ DoBatchFail /\ UNCHANGED <<editor, last, calls, metric, schema>>
    \/ DoManualSave /\ UNCHANGED <<editor, last, calls, metric, schema>>

Spec == Init /\ [][Next]_vars

(***************************************************************************)
(* Claims on the session.                                                  *)
(***************************************************************************)
\* C1: Reconciliation precedence. Every row whose label is not Unknown
\* immediately before a classification run has the same label after the run,
\* whatever the classifier returned.
C1_ReconciliationPrecedence ==
    [][((DoBatchOk \/ DoBatchFail) /\ pc' = "idle") =>
          \A i \in 1..Len(df) :
              df[i].intent # "Unknown" =>
                  i <= Len(df') /\ df'[i].intent = df[i].intent]_vars

\* C3: Unknown is never persisted. No record of the intent store has an intent
\* that is Unknown, the empty string or a missing value.
C3_UnknownNeverPersisted ==
    \A k \in DOMAIN store : store[k].intent \notin {"Unknown", "", NaN}

\* C4: No fifth label. Every value of the mapping built from the classifier's
\* responses, and every label written to the working dataset or the store,
\* is one of the four intent labels (Unknown apart, in the dataset).
C4_NoFifthLabel ==
    /\ \A k \in DOMAIN all_intents : all_intents[k] \in FourLabels
    /\ \A i \in 1..Len(df) : df[i].intent \in FourLabels \cup {"Unknown"}
    /\ \A k \in DOMAIN store : store[k].intent \in FourLabels

\* C5: Case-folded persistence key. The intent store holds at most one record
\* per case-folded keyword.
C5_OneRecordPerFoldedKeyword ==
    \A a, b \in DOMAIN store : LowerOf[a] = LowerOf[b] => a = b

(***************************************************************************)
(* The manual save on its own: a session that has just loaded a file over  *)
(* a store other sessions have filled, the data editor holding the view    *)
(* and the pending edits of the operator. The save records in last what    *)
(* the handler passed to save_to_db.                                       *)
(***************************************************************************)
\* the stores the session may find: no record, one record, and one record
\* for each spelling of the keyword with labels that differ
InitialStores ==
    {EmptyStore,
     [k \in {"foo"} |-> [intent |-> "Informasional", ts |-> 0]],
     [k \in {"foo", "Foo"} |->
         [intent |-> IF k = "foo" THEN "Informasional" ELSE "Komersial", ts |-> 0]]}

\* the labels the operator picks in the pending edits: a label of the four
\* and the label that save_to_db leaves out
FlushLabels == {"Transaksional", "Unknown"}

InitFlush ==
    /\ file \in Files
    /\ loaded = TRUE
    /\ store \in InitialStores
    /\ \E ord \in Orderings(DOMAIN store) :
          \E existing \in {fetch_existing_intents(store, ord, TRUE)} :
              /\ df = LoadedFrame(file, existing)
              /\ metric = LoadedMetric(file, existing)
    /\ \E view \in SUBSET (1..Len(df)) :
          \E edits \in EditsIn(view, FlushLabels) :
              editor = [pending |-> TRUE, view |-> view, edits |-> edits]
    /\ clock = 0
    /\ pc = "idle"
    /\ keywords = << >>
    /\ idx = 0
    /\ all_intents = EmptyDict
    /\ last = NoLast
    /\ calls = NoCalls
    /\ schema = LoadedSchema

\* what one manual save does, as seen from outside the handler: changes is
\* df_changes, called whether save_to_db was called, saved the rows passed
\* to it, raised whether DataFrame.update raised
ManualLog(changes, conn, end) ==
    [op |-> "manual", conn |-> conn, end |-> end,
     called |-> (conn /\ changes # << >> /\ end \in {"done", "failed"}),
     saved |-> IF conn /\ end \in {"done", "failed"} THEN changes ELSE << >>,
     raised |-> (conn /\ changes # << >> /\ end = "done"
                    /\ UpdateRaises(df, changes))]

\* the operator presses the button on the pending edits; the rerun that ends
\* a save rebuilds the editor, and is not reached when DataFrame.update
\* raises: the editor then keeps the pending edits
FlushSave ==
    \E c \in SaveCases :
        /\ editor.pending
        /\ ManualSave(editor.view, editor.edits, c.conn, c.end)
        /\ \E changes \in {ChangedRows(df, EditedFrame(df, editor.view, editor.edits))} :
              last' = ManualLog(changes, c.conn, c.end)
        /\ editor' = IF last'.called /\ last'.end = "done" /\ ~last'.raised
                     THEN NoEditor ELSE editor
        /\ UNCHANGED <<calls, metric, schema>>

\* the removal of the file, as seen from outside
LoggedClear ==
    /\ ClearUpload
    /\ last' = [op |-> "clear"]
    /\ editor' = NoEditor
    /\ UNCHANGED calls

NextFlush ==
    \/ FlushSave
    \/ LoggedClear

SpecFlush == InitFlush /\ [][NextFlush]_vars


\* the rows of the edited view whose edited label differs from the label the
\* working dataset holds in that row, each with its edited label
DifferingRows ==
    {Row(df[j].kw, EditedLabel(df, editor.edits, j)) :
        j \in {v \in editor.view :
                 EditedLabel(df, editor.edits, v) # df[v].intent}}

\* C6: Manual edit is unconditional. Whatever the prior label and whether or
\* not the store connection is available, a manual save with an edited label
\* that differs from the row's current label leaves the working dataset
\* holding the edited label.
C6_ManualEditUnconditional ==
    [][last'.op = "manual" =>
          \A i \in DOMAIN editor.edits :
              editor.edits[i] # df[i].intent =>
                  /\ i <= Len(df')
                  /\ df'[i] = Row(df[i].kw, editor.edits[i])]_vars

\* C7: Changed-row flush. A manual save passes to save_to_db exactly the
\* keywords of the edited view whose edited label differs from their label in
\* the working dataset; when no label differs there is no call of save_to_db,
\* no record changed and no timestamp refreshed. The first part is said here
\* of the saves that reach save_to_db only, so that a save that ends before
\* the call (no connection, a closed connection, a stop) is not counted
\* against it.
C7_ChangedRowFlush ==
    [][last'.op = "manual" =>
          /\ last'.called => Range(last'.saved) = DifferingRows
          /\ DifferingRows = {} =>
                ~last'.called /\ store' = store /\ clock' = clock]_vars

(***************************************************************************)
(* detect_all_intents_batched followed request by request: a session that  *)
(* loaded a file with the store out of reach (every keyword Unknown);      *)
(* calls records the keyword list of the run, each classifier request with *)
(* its outcome, and the mapping the function returned.                     *)
(***************************************************************************)
\* the files of the runs followed: a keyword on one row only (a keyword on
\* several rows is asked for once, keywords_to_process being unique())
BatchFiles ==
    {f \in UNION {[1..n -> BatchKeywords] : n \in 1..MaxBatchRows} : ~HasDuplicates(f)}

InitBatch ==
    /\ file \in BatchFiles
    /\ loaded = TRUE
    /\ df = LoadedFrame(file, << >>)
    /\ store = EmptyStore
    /\ clock = 0
    /\ pc = "idle"
    /\ keywords = << >>
    /\ idx = 0
    /\ all_intents = EmptyDict
    /\ editor = NoEditor
    /\ last = NoLast
    /\ calls = NoCalls
    /\ metric = LoadedMetric(file, << >>)
    /\ schema = LoadedSchema

LoggedStart ==
    /\ StartRun
    /\ calls' = [kws |-> keywords', log |-> << >>, done |-> FALSE, ret |-> EmptyDict]

LoggedBatchOk ==
    \E text \in BatchResponses, c \in RunCases :
        /\ BatchOk(text, c.conn, c.end)
        /\ calls' = [kws  |-> calls.kws,
                     log  |-> Append(calls.log, [batch |-> CurrentBatch, ok |-> TRUE,
                                                 result |-> ParsedResponse[text]]),
                     done |-> (pc' = "idle"),
                     ret  |-> IF pc' = "idle" THEN LoopResult(text) ELSE EmptyDict]

LoggedBatchFail ==
    \E conn \in BOOLEAN, end \in RunEnds :
        /\ BatchFail(conn, end)
        /\ calls' = [kws  |-> calls.kws,
                     log  |-> Append(calls.log, [batch |-> CurrentBatch, ok |-> FALSE,
                                                 result |-> EmptyDict]),
                     done |-> (pc' = "idle"),
                     ret  |-> IF pc' = "idle" THEN all_intents ELSE EmptyDict]

NextBatch ==
    \/ LoggedStart /\ UNCHANGED <<editor, last, metric, schema>>
    \/ LoggedBatchOk /\ UNCHANGED <<editor, last, metric, schema>>
    \/ LoggedBatchFail /\ UNCHANGED <<editor, last, metric, schema>>

SpecBatch == InitBatch /\ [][NextBatch]_vars

\* the batches 1..n of a keyword list
BatchCount(kws) == (Len(kws) + BatchSize - 1) \div BatchSize

BatchOf(kws, j) ==
    SubSeq(kws, (j - 1) * BatchSize + 1,
           IF j * BatchSize < Len(kws) THEN j * BatchSize ELSE Len(kws))

\* the union of the parsed results of the requests 1..n of a log, a later
\* request's entry standing for an earlier one with the same key
UnionOfResults(log, n) ==
    [key \in UNION {DOMAIN log[j].result : j \in 1..n} |->
        log[CHOOSE j \in 1..n :
               /\ key \in DOMAIN log[j].result
               /\ \A m \in (j + 1)..n : key \notin DOMAIN log[m].result].result[key]]

\* C2: Batch partial failure. If the classifier call of batch k raises,
\* detect_all_intents_batched returns exactly the union of the parsed results
\* of batches 1..k-1 (empty when k = 1), the requests issued are those of
\* batches 1..k in order, and none is issued for batches k+1..n.
C2_BatchPartialFailure ==
    (calls.done /\ \E j \in 1..Len(calls.log) : ~calls.log[j].ok) =>
        LET k == CHOOSE j \in 1..Len(calls.log) :
                    ~calls.log[j].ok /\ \A m \in 1..(j - 1) : calls.log[m].ok
        IN  /\ Len(calls.log) = k
            /\ k <= BatchCount(calls.kws)
            /\ \A j \in 1..k : calls.log[j].batch = BatchOf(calls.kws, j)
            /\ calls.ret = UnionOfResults(calls.log, k - 1)

\* a run whose second or later request raised after an earlier one had
\* returned entries, with batches left unrequested
C2_Witness ==
    /\ calls.done
    /\ Len(calls.log) >= 2
    /\ ~calls.log[Len(calls.log)].ok
    /\ calls.ret # EmptyDict
    /\ Len(calls.log) < BatchCount(calls.kws)

(***************************************************************************)
(* The cleaning and flagging on its own: the metric columns of an upload,  *)
(* then the cleaned columns with the flag of every row.                    *)
(***************************************************************************)
\* rows of the files whose CTR columns are followed
MaxCtrRows == 2

CleanUpload ==
    /\ metric.stage = "raw"
    /\ metric' = CleanMetrics(metric.rows)
    /\ UNCHANGED <<file, loaded, df, store, clock, pc, keywords, idx,
                   all_intents, editor, last, calls, schema>>

InitCtr ==
    /\ file = << >>
    /\ loaded = FALSE
    /\ df = << >>
    /\ store = EmptyStore
    /\ clock = 0
    /\ pc = "idle"
    /\ keywords = << >>
    /\ idx = 0
    /\ all_intents = EmptyDict
    /\ editor = NoEditor
    /\ last = NoLast
    /\ calls = NoCalls
    /\ schema = NoSchema
    /\ \E n \in 1..MaxCtrRows :
         \E lc \in [1..n -> CtrCells], pv \in [1..n -> CtrCells] :
             metric = [stage |-> "raw",
                       rows |-> [i \in 1..n |->
                                    [PlainRow EXCEPT !.last_ctr = lc[i],
                                                     !.prev_ctr = pv[i]]]]

NextCtr == CleanUpload

SpecCtr == InitCtr /\ [][NextCtr]_vars

LastCells == [i \in DOMAIN metric.rows |-> metric.rows[i].last_ctr]

PrevCells == [i \in DOMAIN metric.rows |-> metric.rows[i].prev_ctr]

Idempotent(col) == ~Before("1.0", ColumnMax(col)) /\ NormalizeCtr(col) = col

\* C9 as stated: after one application of the rule every CTR column has a
\* maximum of at most 1 and a second application changes no value.
C9_NormalizationIdempotent ==
    metric.stage = "clean" =>
        Idempotent(metric.last_ctr) /\ Idempotent(metric.prev_ctr)

\* C9 amended: for every parsed CTR column whose maximum is at most 100, after
\* one application of the rule the column maximum is at most 1 and a second
\* application changes no value.
C9_NormalizationIdempotentUpTo100 ==
    metric.stage = "clean" =>
        /\ ~Before("100.0", ColumnMax(metric.last_parsed))
              => Idempotent(metric.last_ctr)
        /\ ~Before("100.0", ColumnMax(metric.prev_parsed))
              => Idempotent(metric.prev_ctr)

\* a column with a maximum between 1 and 100 has been divided
C9_Witness ==
    /\ metric.stage = "clean"
    /\ Before("1.0", ColumnMax(metric.last_parsed))
    /\ ~Before("100.0", ColumnMax(metric.last_parsed))
    /\ metric.last_ctr # metric.last_parsed
    /\ Before("0.0", metric.last_ctr[1])

PercentBody(s) == SubSeq(s, 1, Len(s) - 1)

IsPercentCell(s) ==
    /\ Len(s) > 1
    /\ CharAt(s, Len(s)) = "%"
    /\ IsNumeric(PercentBody(s))
    /\ ~Less("100.0", NumericValue(PercentBody(s)))

IsFractionOfPercent(cells, cleaned) ==
    (\A i \in DOMAIN cells : IsPercentCell(cells[i])) =>
        \A i \in DOMAIN cells :
            cleaned[i] = DividedBy100[NumericValue(PercentBody(cells[i]))]

\* C10: for a CTR column whose cells are percent strings 'p%' with p between 0
\* and 100, every cleaned value equals p/100, for the last and for the
\* previous column independently.
C10_CtrAlwaysFraction ==
    metric.stage = "clean" =>
        /\ IsFractionOfPercent(LastCells, metric.last_ctr)
        /\ IsFractionOfPercent(PrevCells, metric.prev_ctr)

\* the rows of the one-row files whose flag is followed
UploadedRecords ==
    [last_ctr : FlagCells, prev_ctr : FlagCells,
     last_position : {2, 3},
     last_impressions : {5000, 5001}, prev_impressions : {5000, 5001},
     last_clicks : {9, 10}, prev_clicks : {10}]

InitFlag ==
    /\ file = << >>
    /\ loaded = FALSE
    /\ df = << >>
    /\ store = EmptyStore
    /\ clock = 0
    /\ pc = "idle"
    /\ keywords = << >>
    /\ idx = 0
    /\ all_intents = EmptyDict
    /\ editor = NoEditor
    /\ last = NoLast
    /\ calls = NoCalls
    /\ schema = NoSchema
    /\ \E r \in UploadedRecords : metric = [stage |-> "raw", rows |-> << r >>]

NextFlag == CleanUpload

SpecFlag == InitFlag /\ [][NextFlag]_vars

\* C8: a cleaned record is flagged exactly when one of the three sub-flags
\* holds: last_ctr < prev_ctr * 0.9, or last_ctr < 0.02 with last_position < 3
\* and last_impressions > 5000, or last_clicks < prev_clicks with
\* last_impressions > prev_impressions; every comparison is strict, the
\* values being the cleaned floating-point values and the product the
\* floating-point product.
C8_NeedsOptimization ==
    metric.stage = "clean" =>
        \A i \in DOMAIN metric.cleaned :
            LET r == metric.cleaned[i]
            IN  metric.needs[i] <=>
                    \/ Less(r.last_ctr, TimesNineTenths[r.prev_ctr])
                    \/ /\ Less(r.last_ctr, "0.02")
                       /\ r.last_position < 3
                       /\ r.last_impressions > 5000
                    \/ /\ r.last_clicks < r.prev_clicks
                       /\ r.last_impressions > r.prev_impressions

\* a cleaned record on every threshold (last_ctr equal to prev_ctr * 0.9,
\* position 3, 5000 impressions in both periods, the same clicks) that is
\* not flagged
C8_Witness ==
    /\ metric.stage = "clean"
    /\ \E i \in DOMAIN metric.cleaned :
           LET r == metric.cleaned[i]
           IN  /\ r.last_ctr = TimesNineTenths[r.prev_ctr]
               /\ Less(r.last_ctr, "0.02")
               /\ r.last_position = 3
               /\ r.last_impressions = 5000
               /\ r.prev_impressions = 5000
               /\ r.last_clicks = r.prev_clicks
               /\ ~metric.needs[i]

(***************************************************************************)
(* The header handling on its own, for app.py and for app2.py: a first     *)
(* file in the uploader, then the files that take its place or, in         *)
(* app2.py, its removal.  schema holds the header row of the file in the   *)
(* uploader and the mapping keys of the session.                           *)
(***************************************************************************)
\* s with the keys column_mapping and reverse_mapping of the session old (to
\* which app2.py adds the pairs of reverse_mapping as original_headers), where
\* old holds them
KeepMapping(s, old) ==
    IF "column_mapping" \in DOMAIN old
    THEN [stage |-> s.stage, strategy |-> s.strategy, headers |-> s.headers,
          column_mapping |-> old.column_mapping,
          reverse_mapping |-> old.reverse_mapping]
    ELSE s

\* no file in the uploader
Removed(strategy) == [stage |-> "none", strategy |-> strategy, headers |-> << >>]

\* the run that reads the file, as far as the headers go: on an error
\* st.stop() leaves the session without a working dataset; stop says that
\* the run is stopped after the mapping was stored and before the dataset is
\* (a rerun request taken up between app.py 152 and 182, app2.py 161 and
\* 208).  The run after a stopped one reads the file again.
LoadHeaders(result, stop) ==
    /\ schema.stage \in {"upload", "mapped"}
    /\ ~loaded
    /\ schema' = result
    /\ loaded' = (result.stage = "mapped" /\ ~stop)
    /\ UNCHANGED <<file, df, store, clock, pc, keywords, idx, all_intents,
                   editor, last, calls, metric>>

LoadPositional ==
    /\ schema.strategy = "positional"
    /\ \E stop \in BOOLEAN : LoadHeaders(PositionalSchema(schema.headers), stop)

\* app2.py stores its mapping once the validation has passed; a file that is
\* not taken leaves the mapping of an earlier file where it is
KeywordResult(s) ==
    LET result == KeywordSchema(s.headers)
    IN  IF result.stage = "error" THEN KeepMapping(result, s) ELSE result

LoadKeyword ==
    /\ schema.strategy = "keyword"
    /\ \E stop \in BOOLEAN : LoadHeaders(KeywordResult(schema), stop)

\* the header rows of the files that take the place of the first: one with
\* no keyword column, one with a single column of clicks, one that the
\* keyword strategy takes
Replacements ==
    {SelectSeq2(HeaderPool, S) : S \in {{13}, {1, 3}, {1, 3, 4, 6, 7, 8, 9, 10, 11}}}

\* app.py: a file takes the place of the one in the uploader; the callback
\* deletes the dataset and both mappings
ReplacePositional(h) ==
    /\ schema.stage # "none"
    /\ schema.strategy = "positional"
    /\ schema' = Uploaded(h)
    /\ loaded' = FALSE
    /\ UNCHANGED <<file, df, store, clock, pc, keywords, idx, all_intents,
                   editor, last, calls, metric>>

\* app2.py: the file in the uploader is changed; the callback deletes the
\* dataset and nothing else.  h is the header row of the new file.
ReplaceKeyword(h) ==
    /\ schema.strategy = "keyword"
    /\ schema' = KeepMapping([stage |-> "upload", strategy |-> "keyword", headers |-> h],
                             schema)
    /\ loaded' = FALSE
    /\ UNCHANGED <<file, df, store, clock, pc, keywords, idx, all_intents,
                   editor, last, calls, metric>>

\* app2.py: the file is removed from the uploader
RemoveKeyword ==
    /\ schema.strategy = "keyword"
    /\ schema.stage # "none"
    /\ schema' = KeepMapping(Removed("keyword"), schema)
    /\ loaded' = FALSE
    /\ UNCHANGED <<file, df, store, clock, pc, keywords, idx, all_intents,
                   editor, last, calls, metric>>

InitSchema ==
    /\ file = << >>
    /\ loaded = FALSE
    /\ df = << >>
    /\ store = EmptyStore
    /\ clock = 0
    /\ pc = "idle"
    /\ keywords = << >>
    /\ idx = 0
    /\ all_intents = EmptyDict
    /\ editor = NoEditor
    /\ last = NoLast
    /\ calls = NoCalls
    /\ metric = NoMetric
    /\ \E h \in HeaderRows, strategy \in {"positional", "keyword"} :
          schema = [stage |-> "upload", strategy |-> strategy, headers |-> h]

NextSchema ==
    \/ LoadPositional
    \/ LoadKeyword
    \/ \E h \in Replacements : ReplacePositional(h)
    \/ \E h \in Replacements : ReplaceKeyword(h)
    \/ RemoveKeyword

SpecSchema == InitSchema /\ [][NextSchema]_vars

\* the headers shown for the canonical columns of the working dataset
DisplayHeaders == Rename(schema.columns, schema.reverse_mapping)

\* C11: Schema round-trip. For every successfully loaded file, under either
\* strategy, renaming the canonical columns of the working dataset through the
\* stored reverse mapping yields exactly the original header strings.
C11_SchemaRoundTrip ==
    schema.stage = "mapped" => DisplayHeaders = schema.headers

\* C12: ColumnMapping is a bijection. Whenever the keyword-strategy load
\* passes its validation, column_mapping maps nine distinct original headers
\* one-to-one onto the nine canonical names and reverse_mapping is its exact
\* inverse.
C12_ColumnMappingBijection ==
    (schema.stage = "mapped" /\ schema.strategy = "keyword") =>
        LET cm == schema.column_mapping
            rm == schema.reverse_mapping
        IN  /\ Cardinality(DOMAIN cm) = Len(StandardHeaders)
            /\ DOMAIN cm \subseteq Range(schema.headers)
            /\ {cm[k] : k \in DOMAIN cm} = Range(StandardHeaders)
            /\ \A a, b \in DOMAIN cm : cm[a] = cm[b] => a = b
            /\ DOMAIN rm = Range(StandardHeaders)
            /\ \A k \in DOMAIN cm : rm[cm[k]] = k

\* the number of columns of a header row whose stripped, lower-cased name
\* contains the word of a metric family
MatchCount(headers, token) ==
    Cardinality({i \in 1..Len(headers) : InStr(token, KeyOf[StrippedOf[headers[i]]])})

HasKeywordColumn(headers) ==
    \E i \in 1..Len(headers) : StrippedOf[headers[i]] \in keyword_col_candidates

SchemaInvalid ==
    \/ /\ schema.strategy = "positional"
       /\ Len(schema.headers) < Len(StandardHeaders)
    \/ /\ schema.strategy = "keyword"
       /\ \/ ~HasKeywordColumn(schema.headers)
          \/ \E t \in MetricTokens : MatchCount(schema.headers, t) # 2

\* C13: SchemaError halts the load. When the positional strategy sees fewer
\* than nine columns, or the keyword strategy finds no keyword column or a
\* metric family whose number of matching columns is not exactly two, the
\* load stops with an error and no working dataset is stored in the session.
C13_SchemaErrorHalts ==
    (schema.stage \in {"mapped", "error"} /\ SchemaInvalid) =>
        /\ schema.stage = "error"
        /\ ~loaded
        /\ df = << >>

\* a keyword-strategy load stopped for a metric family with three columns,
\* the keyword column present and every family with at least two
C13_Witness ==
    /\ schema.stage = "error"
    /\ schema.strategy = "keyword"
    /\ ~loaded
    /\ HasKeywordColumn(schema.headers)
    /\ \E t \in MetricTokens : MatchCount(schema.headers, t) = 3
    /\ \A t \in MetricTokens : MatchCount(schema.headers, t) >= 2

(***************************************************************************)
(* The upload on its own, over a store other sessions have filled: last    *)
(* records whether the load obtained a connection and whether the bulk     *)
(* read of the store succeeded.                                            *)
(***************************************************************************)
InitLoad ==
    /\ file = << >>
    /\ loaded = FALSE
    /\ df = << >>
    /\ store \in InitialStores
    /\ clock = 0
    /\ pc = "idle"
    /\ keywords = << >>
    /\ idx = 0
    /\ all_intents = EmptyDict
    /\ editor = NoEditor
    /\ last = NoLast
    /\ calls = NoCalls
    /\ metric = NoMetric
    /\ schema = NoSchema

\* what a run that reads the file leaves: a dataset, a rejection, or neither
\* when it was stopped.  A file that is not taken ends the run before a
\* connection is asked for.
LoadLog(conn, readOk) ==
    IF loaded' THEN [op |-> "load", conn |-> conn, readOk |-> readOk]
    ELSE IF schema'.stage = "error" THEN [op |-> "rejected"]
    ELSE [op |-> "stopped"]

LoggedLoad ==
    \E f \in Files, h \in UploadHeaders :
        \E m \in MetricTables(Len(f)), c \in LoadCases(h, Orderings(DOMAIN store)) :
            /\ Load(f, h, m, c.conn, c.ord, c.readOk, c.stop)
            /\ last' = LoadLog(c.conn, c.readOk)
            /\ UNCHANGED <<editor, calls>>

LoggedResume ==
    /\ schema.stage \in {"upload", "mapped"}
    /\ \E c \in LoadCases(schema.headers, Orderings(DOMAIN store)) :
          /\ ResumeLoad(c.conn, c.ord, c.readOk, c.stop)
          /\ last' = LoadLog(c.conn, c.readOk)
          /\ UNCHANGED <<editor, calls>>

NextLoad ==
    \/ LoggedLoad
    \/ LoggedResume
    \/ LoggedClear

SpecLoad == InitLoad /\ [][NextLoad]_vars

\* C14: Store unavailable at load. If the bulk read of the intent store fails
\* or no connection can be obtained, the dataset load still completes and
\* every keyword of the working dataset has the label Unknown.
C14_StoreUnavailableAtLoad ==
    (last.op = "load" /\ (~last.conn \/ ~last.readOk)) =>
        /\ loaded
        /\ df = [i \in 1..Len(file) |-> Row(file[i], "Unknown")]

\* a load whose read failed over a store that holds a record for a keyword
\* of the file
C14_Witness ==
    /\ last.op = "load"
    /\ last.conn
    /\ ~last.readOk
    /\ loaded
    /\ \E i \in 1..Len(file) : \E k \in DOMAIN store : LowerOf[k] = LowerOf[file[i]]

\* C17: Row count is preserved. The working dataset has exactly one row per
\* data row of the uploaded file, in the order of the file.
C17_RowCountPreserved ==
    loaded => KeywordColumn(df) = file

(***************************************************************************)
(* Manual save followed by a new upload of the same file, the store within *)
(* reach both times.                                                       *)
(***************************************************************************)
ReloadSame ==
    /\ last.op = "manual"
    /\ last.called
    /\ last.end = "done"
    /\ \E ord \in Orderings(DOMAIN store) :
          Load(file, schema.headers, metric.rows, TRUE, ord, TRUE, "done")
    /\ last' = [op |-> "reload"]
    /\ editor' = NoEditor
    /\ UNCHANGED calls

NextReload ==
    \/ FlushSave
    \/ ReloadSame
    \/ LoggedClear

SpecReload == InitFlush /\ [][NextReload]_vars

\* C18: Persist/reload round-trip. After a manual save that completed with the
\* store reachable, loading the same file again seeds every keyword with the
\* label the working dataset showed for it after the save, also when the
\* label was changed to Unknown.
C18_PersistReloadRoundTrip ==
    [][(last.op = "manual" /\ last'.op = "reload") => Range(df') = Range(df)]_vars

(***************************************************************************)
(* A classification run answered as the prompt asks: for every keyword of  *)
(* a batch the response holds the line '- keyword: intent' with one of the *)
(* four labels. calls records the batches and the labels answered.         *)
(***************************************************************************)
ApplyFiles ==
    {f \in UNION {[1..n -> ApplyKeywords] : n \in 1..MaxBatchRows} : ~HasDuplicates(f)}

InitApply ==
    /\ file \in ApplyFiles
    /\ loaded = TRUE
    /\ df = LoadedFrame(file, << >>)
    /\ store = EmptyStore
    /\ clock = 0
    /\ pc = "idle"
    /\ keywords = << >>
    /\ idx = 0
    /\ all_intents = EmptyDict
    /\ editor = NoEditor
    /\ last = NoLast
    /\ calls = NoCalls
    /\ metric = LoadedMetric(file, << >>)
    /\ schema = LoadedSchema

AnsweredBatch ==
    \E labels \in [1..Len(CurrentBatch) -> FourLabels], c \in RunCases :
        /\ BatchOk(AnswerText(CurrentBatch, labels), c.conn, c.end)
        /\ calls' = [kws  |-> calls.kws,
                     log  |-> Append(calls.log, [batch |-> CurrentBatch, ok |-> TRUE,
                                                 labels |-> labels]),
                     done |-> (pc' = "idle"),
                     end  |-> IF pc' = "idle" THEN c.end ELSE "none",
                     ret  |-> IF pc' = "idle"
                              THEN LoopResult(AnswerText(CurrentBatch, labels))
                              ELSE EmptyDict]

NextApply ==
    \/ LoggedStart /\ UNCHANGED <<editor, last, metric, schema>>
    \/ AnsweredBatch /\ UNCHANGED <<editor, last, metric, schema>>

SpecApply == InitApply /\ [][NextApply]_vars

\* C16: Classifier result is applied to Unknown keywords. For every keyword k
\* that was Unknown before a classification run, if the response of k's batch
\* holds the line '- k: L' with L one of the four labels, then after the run
\* the working dataset's label of k is L, whatever the text of k.
C16_ClassifierResultApplied ==
    (calls.done /\ calls.end = "done") =>
        \A j \in 1..Len(calls.log) :
            \A n \in 1..Len(calls.log[j].batch) :
                \A i \in 1..Len(df) :
                    df[i].kw = calls.log[j].batch[n] =>
                        df[i].intent = calls.log[j].labels[n]

(***************************************************************************)
(* detect_all_intents_batched of app2.py, request by request. There        *)
(* detect_intents_batch catches the exception of the model call itself and *)
(* returns an empty dict, so the loop takes the pass as a success. Each    *)
(* log entry also records whether the pass ended in the pacing delay.      *)
(***************************************************************************)
\* one pass of the loop of app2.py whose model call raises
BatchFailApp2(conn, end) ==
    /\ pc = "run"
    /\ idx < Len(keywords)
    /\ IF idx + BatchSize < Len(keywords)
       THEN /\ all_intents' = DictUpdate(all_intents, EmptyDict)
            /\ idx' = idx + BatchSize
            /\ UNCHANGED <<file, loaded, df, store, clock, pc, keywords>>
       ELSE FinishRun(DictUpdate(all_intents, EmptyDict), conn, end)

\* time.sleep(delay) at the end of a pass that is not the last
Slept == idx + BatchSize < Len(keywords)

LoggedBatchOkApp2 ==
    \E text \in BatchResponses, c \in RunCases :
        /\ BatchOk(text, c.conn, c.end)
        /\ calls' = [kws  |-> calls.kws,
                     log  |-> Append(calls.log, [batch |-> CurrentBatch, ok |-> TRUE,
                                                 result |-> ParsedResponse[text],
                                                 slept |-> Slept]),
                     done |-> (pc' = "idle"),
                     ret  |-> IF pc' = "idle" THEN LoopResult(text) ELSE EmptyDict]

LoggedBatchFailApp2 ==
    \E c \in RunCases :
        /\ BatchFailApp2(c.conn, c.end)
        /\ calls' = [kws  |-> calls.kws,
                     log  |-> Append(calls.log, [batch |-> CurrentBatch, ok |-> FALSE,
                                                 result |-> EmptyDict,
                                                 slept |-> Slept]),
                     done |-> (pc' = "idle"),
                     ret  |-> IF pc' = "idle" THEN all_intents ELSE EmptyDict]

NextBatchApp2 ==
    \/ LoggedStart /\ UNCHANGED <<editor, last, metric, schema>>
    \/ LoggedBatchOkApp2 /\ UNCHANGED <<editor, last, metric, schema>>
    \/ LoggedBatchFailApp2 /\ UNCHANGED <<editor, last, metric, schema>>

SpecBatchApp2 == InitBatch /\ [][NextBatchApp2]_vars

\* C15: Batch failure stops the loop in app2.py. When the model call of batch
\* k raises, no classifier request is issued and no pacing delay observed for
\* any batch after k, and the results of batches 1..k-1 are returned.
C15_BatchFailureStopsLoopApp2 ==
    (calls.done /\ \E j \in 1..Len(calls.log) : ~calls.log[j].ok) =>
        LET k == CHOOSE j \in 1..Len(calls.log) :
                    ~calls.log[j].ok /\ \A m \in 1..(j - 1) : calls.log[m].ok
        IN  /\ Len(calls.log) = k
            /\ ~calls.log[k].slept
            /\ calls.ret = UnionOfResults(calls.log, k - 1)

====
